---- MODULE Spec2Model ----
(***************************************************************************)
(* A model of encodeurl (index.js): encodeUrl(url) with its two regular    *)
(* expressions, the ASCII fast path and the URL_CACHE memo.                *)
(*                                                                         *)
(* A string is a sequence of UTF-16 code units (integers 0..65535), as a   *)
(* JavaScript string is.  A call either returns a string or throws the     *)
(* URIError that encodeURI raises on a lone surrogate; the outcome of a    *)
(* call is the record [threw, val].                                        *)
(***************************************************************************)
EXTENDS Integers, Sequences, FiniteSets

(***************************************************************************)
(* Code units the model names.                                             *)
(***************************************************************************)
NUL == 0
SPACE == 32
PERCENT == 37
DIGIT_2 == 50
LBRACKET == 91
LOWER_A == 97
LOWER_Z == 122
NON_ASCII == 128
HIGH_SURROGATE == 55357
LOW_SURROGATE == 56443
REPLACEMENT_CHAR == 65533

(***************************************************************************)
(* Bounds of the model.                                                    *)
(***************************************************************************)
MaxLen == 4
MaxRounds == 2
NumFresh == 103
MaxRecalls == 1

(***************************************************************************)
(* Program constants.                                                      *)
(***************************************************************************)
MAX_SIZE == 100
MAX_CACHED_LENGTH == 200

Ok(v) == [threw |-> FALSE, val |-> v]
URIError == [threw |-> TRUE, val |-> <<>>]

(***************************************************************************)
(* The loops below scan a string st.s from position st.i.  A loop runs its *)
(* step at most n times and ends when the position passes the end of the   *)
(* string; every step advances the position or leaves the state as it is,  *)
(* so Len(s) steps run a loop to its end.  Each loop is split in halves to *)
(* keep the evaluation shallow on long strings.                            *)
(***************************************************************************)

IsHex(c) == c \in 48..57 \/ c \in 65..70 \/ c \in 97..102
IsHighSurrogate(c) == c \in 55296..56319
IsLowSurrogate(c) == c \in 56320..57343

(***************************************************************************)
(* The character class of ENCODE_CHARS_REGEXP (before negation):           *)
(* [\x21\x23-\x3B\x3D\x3F-\x5F\x61-\x7A\x7C\x7E]                           *)
(***************************************************************************)
UrlCodePoint(c) ==
    \/ c = 33
    \/ c \in 35..59
    \/ c = 61
    \/ c \in 63..95
    \/ c \in 97..122
    \/ c = 124
    \/ c = 126

(***************************************************************************)
(* VALID_URL_CHARS: the Set built from validRanges.                        *)
(***************************************************************************)
VALID_URL_CHARS == {33} \cup (35..59) \cup {61} \cup (63..95) \cup (97..122) \cup {124} \cup {126}

(***************************************************************************)
(* ASCII_ONLY_REGEXP.test(s): /^[\x00-\x7F]*$/                             *)
(***************************************************************************)
ASCII_ONLY_REGEXP(s) == \A i \in 1..Len(s) : s[i] \in 0..127

(***************************************************************************)
(* encodeURI (ECMAScript Encode with the reserved-plus-unescaped set and   *)
(* '#'): UTF-8 octets of each code point, each as %XX in upper case.       *)
(***************************************************************************)
UriUnreserved(c) ==
    \/ c \in 48..57 \/ c \in 65..90 \/ c \in 97..122
    \/ c \in {59, 47, 63, 58, 64, 38, 61, 43, 36, 44, 35}
    \/ c \in {45, 95, 46, 33, 126, 42, 39, 40, 41}

HexDigit(n) == IF n < 10 THEN 48 + n ELSE 55 + n

PercentOctet(b) == <<PERCENT, HexDigit(b \div 16), HexDigit(b % 16)>>

UTF8(v) ==
    IF v < 128 THEN <<v>>
    ELSE IF v < 2048 THEN <<192 + (v \div 64), 128 + (v % 64)>>
    ELSE IF v < 65536
         THEN <<224 + (v \div 4096), 128 + ((v \div 64) % 64), 128 + (v % 64)>>
    ELSE <<240 + (v \div 262144), 128 + ((v \div 4096) % 64),
           128 + ((v \div 64) % 64), 128 + (v % 64)>>

RECURSIVE PercentOctets(_)
PercentOctets(octets) ==
    IF octets = <<>> THEN <<>>
    ELSE PercentOctet(Head(octets)) \o PercentOctets(Tail(octets))

CodePoint(hi, lo) == (hi - 55296) * 1024 + (lo - 56320) + 65536

EncodeStep(st) ==
    LET str == st.s
        k == st.i
    IN IF st.threw \/ k > Len(str) THEN st
       ELSE IF UriUnreserved(str[k])
            THEN [st EXCEPT !.i = k + 1, !.out = Append(@, str[k])]
       ELSE IF IsLowSurrogate(str[k]) THEN [st EXCEPT !.threw = TRUE]
       ELSE IF ~IsHighSurrogate(str[k])
            THEN [st EXCEPT !.i = k + 1, !.out = @ \o PercentOctets(UTF8(str[k]))]
       ELSE IF k + 1 > Len(str) THEN [st EXCEPT !.threw = TRUE]
       ELSE IF ~IsLowSurrogate(str[k + 1]) THEN [st EXCEPT !.threw = TRUE]
       ELSE [st EXCEPT !.i = k + 2,
                       !.out = @ \o PercentOctets(UTF8(CodePoint(str[k], str[k + 1])))]

RECURSIVE EncodeLoop(_, _)
EncodeLoop(st, n) ==
    IF n <= 0 \/ st.i > Len(st.s) THEN st
    ELSE IF n = 1 THEN EncodeStep(st)
    ELSE EncodeLoop(EncodeLoop(st, n \div 2), n - (n \div 2))

encodeURI(str) ==
    LET r == EncodeLoop([s |-> str, i |-> 1, out |-> <<>>, threw |-> FALSE],
                     Len(str))
    IN IF r.threw THEN URIError ELSE Ok(r.out)

(***************************************************************************)
(* UNMATCHED_SURROGATE_PAIR_REGEXP tried at position i of s:               *)
(*   (^|[^HIGH])[LOW] | [HIGH]([^LOW]|$)                                  *)
(* with HIGH = \uD800-\uDBFF and LOW = \uDC00-\uDFFF.                      *)
(* The alternatives are tried in order.  The result is the number of code  *)
(* units matched (0: no match at i) and the replacement $1 U+FFFD $2.      *)
(***************************************************************************)
UNMATCHED_SURROGATE_PAIR_REGEXP(s, i) ==
    IF i = 1 /\ IsLowSurrogate(s[i])
    THEN [len |-> 1, rep |-> <<REPLACEMENT_CHAR>>]
    ELSE IF ~IsHighSurrogate(s[i]) /\ i + 1 <= Len(s) /\ IsLowSurrogate(s[i + 1])
    THEN [len |-> 2, rep |-> <<s[i], REPLACEMENT_CHAR>>]
    ELSE IF IsHighSurrogate(s[i]) /\ i + 1 <= Len(s) /\ ~IsLowSurrogate(s[i + 1])
    THEN [len |-> 2, rep |-> <<REPLACEMENT_CHAR, s[i + 1]>>]
    ELSE IF IsHighSurrogate(s[i]) /\ i = Len(s)
    THEN [len |-> 1, rep |-> <<REPLACEMENT_CHAR>>]
    ELSE [len |-> 0, rep |-> <<>>]

(***************************************************************************)
(* s.replace(UNMATCHED_SURROGATE_PAIR_REGEXP, ..._REPLACE): a global       *)
(* replace, leftmost match first, the search resuming after the end of     *)
(* each match.  One step tries the expression at position st.i.            *)
(***************************************************************************)
SurrogateStep(st) ==
    IF st.i > Len(st.s) THEN st
    ELSE LET m == UNMATCHED_SURROGATE_PAIR_REGEXP(st.s, st.i) IN
         IF m.len = 0 THEN [st EXCEPT !.i = @ + 1, !.out = Append(@, st.s[st.i])]
         ELSE [st EXCEPT !.i = @ + m.len, !.out = @ \o m.rep]

RECURSIVE SurrogateLoop(_, _)
SurrogateLoop(st, n) ==
    IF n <= 0 \/ st.i > Len(st.s) THEN st
    ELSE IF n = 1 THEN SurrogateStep(st)
    ELSE SurrogateLoop(SurrogateLoop(st, n \div 2), n - (n \div 2))

ReplaceSurrogates(s) ==
    SurrogateLoop([s |-> s, i |-> 1, out |-> <<>>], Len(s)).out

(***************************************************************************)
(* A variant of the group without the exemption of valid escapes: every    *)
(* '%' is matched, as in /[^...]|%/.                                       *)
(***************************************************************************)
EncodeCharsGroup_AnyPercent(s, i) ==
    IF i > Len(s) THEN 0
    ELSE IF ~UrlCodePoint(s[i]) \/ s[i] = PERCENT THEN 1
    ELSE 0

(***************************************************************************)
(* One iteration of the group of ENCODE_CHARS_REGEXP at position i:        *)
(*   [^...] | %(?:[^0-9A-Fa-f] | [0-9A-Fa-f][^0-9A-Fa-f] | $)              *)
(* The number of code units it consumes, 0 when it does not match.         *)
(***************************************************************************)
EncodeCharsGroup(s, i) ==
    IF i > Len(s) THEN 0
    ELSE IF ~UrlCodePoint(s[i]) THEN 1
    ELSE IF s[i] # PERCENT THEN 0
    ELSE IF i + 1 <= Len(s) /\ ~IsHex(s[i + 1]) THEN 2
    ELSE IF i + 2 <= Len(s) /\ IsHex(s[i + 1]) /\ ~IsHex(s[i + 2]) THEN 3
    ELSE IF i = Len(s) THEN 1
    ELSE 0

(***************************************************************************)
(* ENCODE_CHARS_REGEXP tried at position i: the greedy (...)+; the result  *)
(* is the position after the match, i itself when there is no match.       *)
(***************************************************************************)
GroupStep(st) == [st EXCEPT !.i = @ + EncodeCharsGroup(st.s, @)]

RECURSIVE GroupLoop(_, _)
GroupLoop(st, n) ==
    IF n <= 0 \/ st.i > Len(st.s) THEN st
    ELSE IF n = 1 THEN GroupStep(st)
    ELSE GroupLoop(GroupLoop(st, n \div 2), n - (n \div 2))

ENCODE_CHARS_REGEXP(s, i) ==
    IF EncodeCharsGroup(s, i) = 0 THEN i
    ELSE GroupLoop([s |-> s, i |-> i], Len(s) - i + 1).i

(***************************************************************************)
(* s.replace(ENCODE_CHARS_REGEXP, encodeURI): one step tries the           *)
(* expression at position st.i and appends either the code unit there or   *)
(* encodeURI of the match.                                                 *)
(***************************************************************************)
ReplaceStep(st) ==
    IF st.threw \/ st.i > Len(st.s) THEN st
    ELSE LET e == ENCODE_CHARS_REGEXP(st.s, st.i) IN
         IF e = st.i THEN [st EXCEPT !.i = @ + 1, !.out = Append(@, st.s[st.i])]
         ELSE LET r == encodeURI(SubSeq(st.s, st.i, e - 1)) IN
              IF r.threw THEN [st EXCEPT !.threw = TRUE]
              ELSE [st EXCEPT !.i = e, !.out = @ \o r.val]

RECURSIVE ReplaceLoop(_, _)
ReplaceLoop(st, n) ==
    IF n <= 0 \/ st.i > Len(st.s) THEN st
    ELSE IF n = 1 THEN ReplaceStep(st)
    ELSE ReplaceLoop(ReplaceLoop(st, n \div 2), n - (n \div 2))

ReplaceEncodeChars(s) ==
    LET r == ReplaceLoop([s |-> s, i |-> 1, out |-> <<>>, threw |-> FALSE],
                     Len(s))
    IN IF r.threw THEN URIError ELSE Ok(r.out)

(***************************************************************************)
(* The fast-path test of encodeUrl: ASCII only, no '%', and the scan of    *)
(* VALID_URL_CHARS finds no character that needs encoding.                 *)
(***************************************************************************)
FastPath(urlstr) ==
    /\ ASCII_ONLY_REGEXP(urlstr)
    /\ \A i \in 1..Len(urlstr) : urlstr[i] # PERCENT
    /\ \A i \in 1..Len(urlstr) : urlstr[i] \in VALID_URL_CHARS

(***************************************************************************)
(* URL_CACHE: cache is the object (a function on the keys it holds), keys  *)
(* the array.  undefined is what a lookup of an absent key yields.         *)
(***************************************************************************)
undefined == <<-1>>

URL_CACHE_get(c, key) == IF key \in DOMAIN c THEN c[key] ELSE undefined

(***************************************************************************)
(* Variants of URL_CACHE.set: one stores the key as the value, one tests   *)
(* keys.length > MAX_SIZE, one removes the newest key (pop) for the oldest *)
(* (shift).                                                                *)
(***************************************************************************)
URL_CACHE_set_StoresKey(c, k, key, value) ==
    IF URL_CACHE_get(c, key) = undefined
    THEN LET full == Len(k) >= MAX_SIZE
             c1 == IF full THEN [x \in DOMAIN c \ {Head(k)} |-> c[x]] ELSE c
             k1 == IF full THEN Tail(k) ELSE k
         IN [cache |-> [x \in DOMAIN c1 \cup {key} |-> IF x = key THEN key ELSE c1[x]],
             keys |-> Append(k1, key)]
    ELSE [cache |-> [x \in DOMAIN c |-> IF x = key THEN key ELSE c[x]],
          keys |-> k]

URL_CACHE_set_OffByOne(c, k, key, value) ==
    IF URL_CACHE_get(c, key) = undefined
    THEN LET full == Len(k) > MAX_SIZE
             c1 == IF full THEN [x \in DOMAIN c \ {Head(k)} |-> c[x]] ELSE c
             k1 == IF full THEN Tail(k) ELSE k
         IN [cache |-> [x \in DOMAIN c1 \cup {key} |-> IF x = key THEN value ELSE c1[x]],
             keys |-> Append(k1, key)]
    ELSE [cache |-> [x \in DOMAIN c |-> IF x = key THEN value ELSE c[x]],
          keys |-> k]

URL_CACHE_set_EvictsNewest(c, k, key, value) ==
    IF URL_CACHE_get(c, key) = undefined
    THEN LET full == Len(k) >= MAX_SIZE
             c1 == IF full THEN [x \in DOMAIN c \ {k[Len(k)]} |-> c[x]] ELSE c
             k1 == IF full THEN SubSeq(k, 1, Len(k) - 1) ELSE k
         IN [cache |-> [x \in DOMAIN c1 \cup {key} |-> IF x = key THEN value ELSE c1[x]],
             keys |-> Append(k1, key)]
    ELSE [cache |-> [x \in DOMAIN c |-> IF x = key THEN value ELSE c[x]],
          keys |-> k]

URL_CACHE_set(c, k, key, value) ==
    IF URL_CACHE_get(c, key) = undefined
    THEN LET full == Len(k) >= MAX_SIZE
             c1 == IF full THEN [x \in DOMAIN c \ {Head(k)} |-> c[x]] ELSE c
             k1 == IF full THEN Tail(k) ELSE k
         IN [cache |-> [x \in DOMAIN c1 \cup {key} |-> IF x = key THEN value ELSE c1[x]],
             keys |-> Append(k1, key)]
    ELSE [cache |-> [x \in DOMAIN c |-> IF x = key THEN value ELSE c[x]],
          keys |-> k]

(***************************************************************************)
(* State.  cache, keys: URL_CACHE.  urlStr, repaired, result, path: the    *)
(* last call of encodeUrl (its argument, the string handed to the second   *)
(* replace, its outcome, and the return statement it left by).  The other  *)
(* variables belong to the callers: arg, pc, round, prev to the caller     *)
(* that feeds encodeUrl its own output; fresh, recalls, evicted to the     *)
(* caller that fills the cache.                                            *)
(***************************************************************************)
VARIABLES cache, keys, urlStr, repaired, result, path,
          arg, pc, round, prev, fresh, recalls, evicted

vars == <<cache, keys, urlStr, repaired, result, path,
          arg, pc, round, prev, fresh, recalls, evicted>>

(***************************************************************************)
(* encodeUrl(url): the whole call.                                         *)
(***************************************************************************)
encodeUrl(url) ==
    LET cached == URL_CACHE_get(cache, url) IN
    /\ urlStr' = url
    /\ IF cached # undefined
       THEN /\ result' = Ok(cached)
            /\ path' = "hit"
            /\ repaired' = <<>>
            /\ UNCHANGED <<cache, keys>>
       ELSE IF FastPath(url)
       THEN LET c == URL_CACHE_set(cache, keys, url, url) IN
            /\ result' = Ok(url)
            /\ path' = "fast"
            /\ repaired' = <<>>
            /\ cache' = c.cache
            /\ keys' = c.keys
       ELSE LET fixed == ReplaceSurrogates(url)
                r == ReplaceEncodeChars(fixed)
                c == URL_CACHE_set(cache, keys, url, r.val)
            IN /\ repaired' = fixed
               /\ result' = r
               /\ path' = "full"
               /\ IF ~r.threw /\ Len(url) < MAX_CACHED_LENGTH
                  THEN cache' = c.cache /\ keys' = c.keys
                  ELSE UNCHANGED <<cache, keys>>

(***************************************************************************)
(* The inputs of the first caller: every string over Alphabet of at most   *)
(* MaxLen code units, and strings around the caching threshold.            *)
(***************************************************************************)
Alphabet == {NUL, PERCENT, LBRACKET, LOWER_A, LOWER_Z, NON_ASCII,
             HIGH_SURROGATE, LOW_SURROGATE}

Strings == UNION {[1..n -> Alphabet] : n \in 0..MaxLen}

Repeat(c, n) == [i \in 1..n |-> c]

LongInputs == {Repeat(c, n) : c \in {LOWER_A, NUL},
                              n \in {MAX_CACHED_LENGTH - 1, MAX_CACHED_LENGTH}}

Inputs == Strings \cup LongInputs

NoResult == Ok(<<>>)

InitModule ==
    /\ cache = <<>>
    /\ keys = <<>>
    /\ urlStr = <<>>
    /\ repaired = <<>>
    /\ result = NoResult
    /\ path = "none"

Init ==
    /\ InitModule
    /\ arg \in Inputs
    /\ pc = "call"
    /\ round = 0
    /\ prev = NoResult
    /\ fresh = 0
    /\ recalls = 0
    /\ evicted = undefined

(***************************************************************************)
(* The first caller: encodeUrl(arg), then encodeUrl of what it returned.   *)
(***************************************************************************)
Call ==
    /\ pc = "call"
    /\ encodeUrl(arg)
    /\ pc' = "returned"
    /\ round' = round + 1
    /\ UNCHANGED <<arg, prev, fresh, recalls, evicted>>

Reencode ==
    /\ pc = "returned"
    /\ round < MaxRounds
    /\ ~result.threw
    /\ arg' = result.val
    /\ prev' = result
    /\ pc' = "call"
    /\ UNCHANGED <<cache, keys, urlStr, repaired, result, path, round,
                   fresh, recalls, evicted>>

Next == Call \/ Reencode

Spec == Init /\ [][Next]_vars

(***************************************************************************)
(* The second caller fills the cache with distinct short strings, calls    *)
(* again with keys the cache holds, with the key evicted last, and with    *)
(* strings that are never stored (one that throws, one that is too long).  *)
(***************************************************************************)
PoolAlphabet == <<SPACE, LOWER_A, PERCENT, DIGIT_2, LBRACKET, NON_ASCII>>

PoolStr(n) ==
    <<PoolAlphabet[((n \div 36) % 6) + 1],
      PoolAlphabet[((n \div 6) % 6) + 1],
      PoolAlphabet[(n % 6) + 1]>>

Evicted == IF Len(keys) >= MAX_SIZE /\ keys' # keys THEN Head(keys) ELSE evicted

InitCache ==
    /\ InitModule
    /\ arg = <<>>
    /\ pc = "call"
    /\ round = 0
    /\ prev = NoResult
    /\ fresh = 0
    /\ recalls = 0
    /\ evicted = undefined

CallFresh ==
    /\ fresh < NumFresh
    /\ encodeUrl(PoolStr(fresh))
    /\ fresh' = fresh + 1
    /\ evicted' = Evicted
    /\ UNCHANGED <<arg, pc, round, prev, recalls>>

CallHeld ==
    /\ keys # <<>>
    /\ \E k \in {keys[1], keys[Len(keys)]} : encodeUrl(k)
    /\ evicted' = Evicted
    /\ UNCHANGED <<arg, pc, round, prev, fresh, recalls>>

CallEvicted ==
    /\ evicted # undefined
    /\ recalls < MaxRecalls
    /\ encodeUrl(evicted)
    /\ recalls' = recalls + 1
    /\ evicted' = Evicted
    /\ UNCHANGED <<arg, pc, round, prev, fresh>>

CallUncached ==
    /\ \E u \in {<<LOW_SURROGATE, LOW_SURROGATE>>, Repeat(NUL, MAX_CACHED_LENGTH)} :
           encodeUrl(u)
    /\ evicted' = Evicted
    /\ UNCHANGED <<arg, pc, round, prev, fresh, recalls>>

NextCache == CallFresh \/ CallHeld \/ CallEvicted \/ CallUncached

SpecCache == InitCache /\ [][NextCache]_vars

(***************************************************************************)
(* The place of each code unit of the replaced string in the output of     *)
(* s.replace(ENCODE_CHARS_REGEXP, encodeURI): a code unit outside every    *)
(* match is copied; inside a match encodeURI writes it as it is            *)
(* (UriUnreserved) or as the percent-encoded octets of its code point (a   *)
(* surrogate pair is written at its high half).  Image(s)[i] is the        *)
(* offset in the output and the piece written for code unit i.             *)
(***************************************************************************)
Piece(s, j) ==
    IF UriUnreserved(s[j]) THEN <<s[j]>>
    ELSE IF IsHighSurrogate(s[j])
         THEN IF j + 1 <= Len(s) /\ IsLowSurrogate(s[j + 1])
              THEN PercentOctets(UTF8(CodePoint(s[j], s[j + 1])))
              ELSE <<>>
    ELSE IF IsLowSurrogate(s[j]) THEN <<>>
    ELSE PercentOctets(UTF8(s[j]))

ImageStep(st) ==
    IF st.i > Len(st.s) THEN st
    ELSE LET e == IF st.i < st.e THEN st.e ELSE ENCODE_CHARS_REGEXP(st.s, st.i)
             p == IF st.i < e THEN Piece(st.s, st.i) ELSE <<st.s[st.i]>>
         IN [st EXCEPT !.e = e, !.i = @ + 1, !.at = @ + Len(p),
                       !.out = Append(@, [at |-> st.at, piece |-> p])]

RECURSIVE ImageLoop(_, _)
ImageLoop(st, n) ==
    IF n <= 0 \/ st.i > Len(st.s) THEN st
    ELSE IF n = 1 THEN ImageStep(st)
    ELSE ImageLoop(ImageLoop(st, n \div 2), n - (n \div 2))

Image(s) ==
    ImageLoop([s |-> s, i |-> 1, e |-> 1, at |-> 1, out |-> <<>>], Len(s)).out

Returned == path # "none" /\ ~result.threw

Written(img, i, piece) ==
    /\ img[i].piece = piece
    /\ img[i].at + Len(piece) - 1 <= Len(result.val)
    /\ SubSeq(result.val, img[i].at, img[i].at + Len(piece) - 1) = piece

(***************************************************************************)
(* The pieces of Image are the output: each piece stands in the returned   *)
(* string at its offset, and the pieces fill it.                           *)
(***************************************************************************)
ImageIsOutput ==
    Returned =>
        LET img == Image(ReplaceSurrogates(urlStr)) IN
        /\ \A i \in 1..Len(urlStr) : Written(img, i, img[i].piece)
        /\ \A i \in 1..Len(urlStr) :
              img[i].at + Len(img[i].piece) =
                  (IF i < Len(urlStr) THEN img[i + 1].at ELSE Len(result.val) + 1)
        /\ Len(urlStr) = 0 => result.val = <<>>

ValidEscapeAt(s, i) ==
    /\ s[i] = PERCENT
    /\ i + 2 <= Len(s)
    /\ IsHex(s[i + 1])
    /\ IsHex(s[i + 2])

UnmatchedSurrogateAt(s, i) ==
    \/ IsHighSurrogate(s[i]) /\ ~(i + 1 <= Len(s) /\ IsLowSurrogate(s[i + 1]))
    \/ IsLowSurrogate(s[i]) /\ ~(i > 1 /\ IsHighSurrogate(s[i - 1]))

(***************************************************************************)
(* C1: encodeUrl returns a string and never throws, for every input        *)
(* string and from any cache state.                                        *)
(***************************************************************************)
C1_NeverThrows == ~result.threw

(***************************************************************************)
(* C2: every '%' followed by two hex digits is copied to the output        *)
(* unchanged together with its two hex digits, whatever precedes or        *)
(* follows the triplet.                                                    *)
(***************************************************************************)
C2_ValidEscapesPreserved ==
    Returned =>
        LET img == Image(ReplaceSurrogates(urlStr)) IN
        \A i \in 1..Len(urlStr) :
            ValidEscapeAt(urlStr, i) =>
                /\ Written(img, i, <<PERCENT>>)
                /\ Written(img, i + 1, <<urlStr[i + 1]>>)
                /\ Written(img, i + 2, <<urlStr[i + 2]>>)

(***************************************************************************)
(* C3: every '%' that does not start a valid escape triplet (fewer than    *)
(* two code units follow it, or one of the two is not a hex digit) is      *)
(* written as '%25'.                                                       *)
(***************************************************************************)
C3_InvalidEscapesRepaired ==
    Returned =>
        LET img == Image(ReplaceSurrogates(urlStr)) IN
        \A i \in 1..Len(urlStr) :
            (urlStr[i] = PERCENT /\ ~ValidEscapeAt(urlStr, i)) =>
                Written(img, i, <<PERCENT, DIGIT_2, 53>>)

(***************************************************************************)
(* C4: the string handed to the percent-encoding step holds no unmatched   *)
(* surrogate, for every arrangement of surrogates in the input.            *)
(***************************************************************************)
C4_SurrogateRepairComplete ==
    path = "full" => \A i \in 1..Len(repaired) : ~UnmatchedSurrogateAt(repaired, i)

(***************************************************************************)
(* C5: every call returns what the uncached transform (the fast-path       *)
(* identity, or surrogate repair followed by selective encoding) yields    *)
(* for its input, served from the cache or computed, whatever calls,       *)
(* insertions and evictions came before.                                   *)
(***************************************************************************)
Uncached(u) ==
    IF FastPath(u) THEN Ok(u) ELSE ReplaceEncodeChars(ReplaceSurrogates(u))

C5_CacheIsMemo == path # "none" => result = Uncached(urlStr)

C5_Witness ==
    /\ path = "hit"
    /\ recalls > 0
    /\ urlStr = keys[Len(keys)]
    /\ result.val # urlStr

(***************************************************************************)
(* C6: the cache never holds a key of MAX_CACHED_LENGTH code units or      *)
(* more, whichever path produced the result.                               *)
(***************************************************************************)
C6_LongInputsNotCached == \A k \in DOMAIN cache : Len(k) < MAX_CACHED_LENGTH

(***************************************************************************)
(* C7: the cache holds at most MAX_SIZE entries, and the queue of keys     *)
(* holds exactly the keys of the entry map, each once.                     *)
(***************************************************************************)
C7_CacheBounded ==
    /\ Cardinality(DOMAIN cache) <= MAX_SIZE
    /\ Len(keys) <= MAX_SIZE
    /\ {keys[i] : i \in 1..Len(keys)} = DOMAIN cache
    /\ Cardinality(DOMAIN cache) = Len(keys)

C7_Witness == Len(keys) = MAX_SIZE /\ evicted # undefined /\ path \in {"fast", "full"}

(***************************************************************************)
(* C8: every safe-set character other than '%' stands unchanged in the     *)
(* output, wherever it stands in the input.                                *)
(***************************************************************************)
C8_SafeCharactersPassThrough ==
    Returned =>
        LET img == Image(ReplaceSurrogates(urlStr)) IN
        \A i \in 1..Len(urlStr) :
            (urlStr[i] \in VALID_URL_CHARS /\ urlStr[i] # PERCENT) =>
                Written(img, i, <<urlStr[i]>>)

C10_Idempotent ==
    (round >= 2 /\ pc = "returned") => (~result.threw /\ result.val = prev.val)

C10_Witness ==
    /\ round = 2
    /\ pc = "returned"
    /\ path = "full"
    /\ \E i \in 1..Len(urlStr) : ValidEscapeAt(urlStr, i)

====
